---- MODULE Spec2Model ----
(***************************************************************************)
(* Model of src/app.py: the Mergington High School activities API.         *)
(*                                                                         *)
(* The store is one SQLite file with two tables.  Every handler opens its  *)
(* own connection (get_db_connection) and runs its statements one by one;  *)
(* the sqlite3 module runs a SELECT in autocommit mode and opens a         *)
(* transaction implicitly before an INSERT or DELETE, which takes the      *)
(* file's single write lock and keeps it until commit (or until the        *)
(* connection is finalised).  A statement that finds the write lock taken  *)
(* waits for it (the busy handler of sqlite3.connect).  One step of the    *)
(* model is one statement (or commit) of one connection.                   *)
(*                                                                         *)
(* A table is the sequence of its rows in rowid order: both tables have    *)
(* "id INTEGER PRIMARY KEY AUTOINCREMENT", so rowid order is insertion     *)
(* order, and nothing in the program reads the id itself.                  *)
(***************************************************************************)
EXTENDS Integers, Sequences, FiniteSets, TLC

\* Bound on the number of times a server process is started again.
MaxRestarts == 1

\* The server processes (each imports app.py, then serves requests).
Procs == {"p1", "p2"}

NoConn == "none"
Leaked == "leaked"

\* ------------------------------------------------------------------ data

\* seed_activities, app.py:59-114 (the first two of the nine literal entries;
\* the other seven have the same shape).
seed_activities ==
  << [name |-> "Chess Club",
      description |-> "Learn strategies and compete in chess tournaments",
      schedule |-> "Fridays, 3:30 PM - 5:00 PM",
      max_participants |-> 12,
      participants |-> <<"michael@mergington.edu", "daniel@mergington.edu">>],
     [name |-> "Programming Class",
      description |-> "Learn programming fundamentals and build software projects",
      schedule |-> "Tuesdays and Thursdays, 3:30 PM - 4:30 PM",
      max_participants |-> 20,
      participants |-> <<"emma@mergington.edu", "sophia@mergington.edu">>] >>

\* Request inputs: path parameter activity_name and query parameter email.
ActivityInputs == {"Chess Club", "Unknown Club"}
EmailInputs == {"michael@mergington.edu", "new@mergington.edu"}

\* Every email of the model in the order of SQLite's BINARY collation
\* (bytewise comparison of the TEXT values).
EmailCollation ==
  << "daniel@mergington.edu", "emma@mergington.edu", "michael@mergington.edu",
     "new@mergington.edu", "sophia@mergington.edu" >>

EmailRank(e) == CHOOSE i \in DOMAIN EmailCollation : EmailCollation[i] = e

\* ------------------------------------------------------- SQL statements

\* A row of table activities (app.py:36-44).
ActivityRow(s) ==
  [name |-> s.name, description |-> s.description, schedule |-> s.schedule,
   max_participants |-> s.max_participants]

\* A row of table participants (app.py:45-52).
ParticipantRow(a, e) == [activity_name |-> a, email |-> e]

\* Faulty variant: the WHERE clause is missing.
SelectActivityNoWhere(acts, name) == acts

\* Faulty variant: the first row is fetched whatever its name.
SelectActivityFirstRow(acts, name) == IF acts = <<>> THEN <<>> ELSE <<Head(acts)>>

\* SELECT * FROM activities WHERE name = ?
SelectActivity(acts, name) == SelectSeq(acts, LAMBDA r : r.name = name)

\* Faulty variant: the email is left out of the WHERE clause.
SelectParticipantAnyEmail(parts, a, e) ==
  SelectSeq(parts, LAMBDA r : r.activity_name = a)

\* SELECT 1 FROM participants WHERE activity_name = ? AND email = ?
SelectParticipant(parts, a, e) ==
  SelectSeq(parts, LAMBDA r : r.activity_name = a /\ r.email = e)

\* Faulty variant: the table declares no UNIQUE(activity_name, email).
NoParticipantUnique(parts, a, e) == FALSE

\* UNIQUE(activity_name, email) on participants: would inserting (a, e) fail?
ParticipantUniqueViolated(parts, a, e) ==
  \E i \in DOMAIN parts : parts[i] = ParticipantRow(a, e)

\* Faulty variant: the column name is not declared UNIQUE.
NoActivityUnique(acts, name) == FALSE

\* name TEXT UNIQUE on activities: would inserting name fail?
ActivityUniqueViolated(acts, name) ==
  \E i \in DOMAIN acts : acts[i].name = name

\* INSERT INTO participants (activity_name, email) VALUES (?, ?)
InsertParticipant(parts, a, e) == Append(parts, ParticipantRow(a, e))

\* INSERT OR IGNORE INTO participants (activity_name, email) VALUES (?, ?)
InsertOrIgnoreParticipant(parts, a, e) ==
  IF ParticipantUniqueViolated(parts, a, e) THEN parts
  ELSE InsertParticipant(parts, a, e)

\* DELETE FROM participants WHERE activity_name = ? AND email = ?
DeleteParticipant(parts, a, e) ==
  SelectSeq(parts, LAMBDA r : ~(r.activity_name = a /\ r.email = e))

RECURSIVE InsertByEmail(_, _)
\* Position of one key in the index of UNIQUE(activity_name, email).
InsertByEmail(sorted, e) ==
  IF sorted = <<>> THEN <<e>>
  ELSE IF EmailRank(e) < EmailRank(Head(sorted)) THEN <<e>> \o sorted
  ELSE <<Head(sorted)>> \o InsertByEmail(Tail(sorted), e)

RECURSIVE IndexOrder(_)
\* The emails of rows in the order of the index on (activity_name, email).
IndexOrder(rows) ==
  IF rows = <<>> THEN <<>>
  ELSE InsertByEmail(IndexOrder(Tail(rows)), Head(rows).email)

\* Faulty variant: the emails of every activity are selected.
SelectEmailsNoWhere(parts, a) == IndexOrder(parts)

\* SELECT email FROM participants WHERE activity_name = ?
\* SQLite answers it from the covering index that UNIQUE(activity_name,
\* email) creates, so the rows come back in index order.
SelectEmails(parts, a) ==
  IndexOrder(SelectSeq(parts, LAMBDA r : r.activity_name = a))

RECURSIVE SeedParticipants(_, _, _)
\* for p in data.get("participants", []): INSERT OR IGNORE ...
SeedParticipants(parts, name, ps) ==
  IF ps = <<>> THEN parts
  ELSE SeedParticipants(InsertOrIgnoreParticipant(parts, name, Head(ps)),
                        name, Tail(ps))

RECURSIVE SeedLoop(_, _)
\* for name, data in seed_activities.items(): ... (app.py:116-125).
\* db.ok turns FALSE at the INSERT the UNIQUE constraint on name rejects.
SeedLoop(db, seeds) ==
  IF seeds = <<>> \/ ~db.ok THEN db
  ELSE IF ActivityUniqueViolated(db.activities, Head(seeds).name)
       THEN [db EXCEPT !.ok = FALSE]
       ELSE SeedLoop([ok |-> TRUE,
                      activities |-> Append(db.activities, ActivityRow(Head(seeds))),
                      participants |-> SeedParticipants(db.participants,
                                          Head(seeds).name, Head(seeds).participants)],
                     Tail(seeds))

\* activity_row_to_dict, with the participants the caller assigns.
activity_row_to_dict(row, parts) ==
  [name |-> row.name, description |-> row.description, schedule |-> row.schedule,
   max_participants |-> row.max_participants, participants |-> parts]

\* ---------------------------------------------------------------- state

VARIABLES
  schema,        \* TRUE once the two tables exist
  activities,    \* committed rows of table activities
  participants,  \* committed rows of table participants
  writer,        \* the connection holding the file's write lock
  pc,            \* each process's position
  call,          \* each process's current request
  txn,           \* each connection's uncommitted tables
  rows,          \* get_activities: the activity rows still to visit
  result,        \* get_activities: the mapping built so far
  resp,          \* the response of the finished request
  before,        \* history of the current call: the committed tables when
                 \* it began, and the processes whose current call has
                 \* overlapped it
  restarts       \* number of process restarts so far

vars == <<schema, activities, participants, writer, pc, call, txn, rows,
          result, resp, before, restarts>>

NoCall == [op |-> "none", activity_name |-> "", email |-> ""]
NoTxn == [activities |-> <<>>, participants |-> <<>>]
NoResp == [status |-> 0, detail |-> ""]
NoResult == [n \in {} |-> 0]
NoBefore == [activities |-> <<>>, participants |-> <<>>, overlapped |-> {}]
Committed == [activities |-> activities, participants |-> participants]

\* Is a call (init_db or a request) of process v in progress?
Running(v) == pc[v] \notin {"import", "idle", "crashed", "done"}

\* before when process w begins a call: w records the committed tables and
\* the processes whose call is in progress, and those record w.
BeginCall(w) ==
  [v \in Procs |->
     IF v = w
     THEN [activities |-> activities, participants |-> participants,
           overlapped |-> {u \in Procs \ {w} : Running(u)}]
     ELSE [before[v] EXCEPT !.overlapped =
             IF Running(v) THEN @ \cup {w} ELSE @ \ {w}]]

\* before when the call of process w is over.
EndCall(w) ==
  [v \in Procs |->
     IF v = w THEN NoBefore
     ELSE [before[v] EXCEPT !.overlapped = @ \ {w}]]

Response(status, detail) == [status |-> status, detail |-> detail]

Init ==
  /\ schema = FALSE
  /\ activities = <<>>
  /\ participants = <<>>
  /\ writer = NoConn
  /\ pc = [w \in Procs |-> "import"]
  /\ call = [w \in Procs |-> NoCall]
  /\ txn = [w \in Procs |-> NoTxn]
  /\ rows = [w \in Procs |-> <<>>]
  /\ result = [w \in Procs |-> NoResult]
  /\ resp = [w \in Procs |-> NoResp]
  /\ before = [w \in Procs |-> NoBefore]
  /\ restarts = 0

\* ------------------------------------------------------------- init_db

\* A process starts: importing app.py calls init_db() (app.py:214).
\* CREATE TABLE IF NOT EXISTS activities / participants; conn.commit().
\* The statements write (and need the write lock) only when the tables are
\* absent.  No other statement can run between the two: a process reads or
\* writes the tables only after its own init_db has passed this point.
init_db_create(w) ==
  /\ pc[w] = "import"
  /\ schema \/ writer = NoConn
  /\ schema' = TRUE
  /\ pc' = [pc EXCEPT ![w] = "init_db_count"]
  /\ call' = [call EXCEPT ![w] = [NoCall EXCEPT !.op = "init_db"]]
  /\ before' = BeginCall(w)
  /\ UNCHANGED <<activities, participants, writer, txn, rows, result, resp, restarts>>

\* The seeding test: row[0] == 0 (app.py:58).
StoreIsEmpty(acts) == Len(acts) = 0

\* SELECT count(*) as c FROM activities; if row and row[0] == 0: ...
init_db_count(w) ==
  /\ pc[w] = "init_db_count"
  /\ IF StoreIsEmpty(activities)
     THEN pc' = [pc EXCEPT ![w] = "init_db_seed"]
     ELSE pc' = [pc EXCEPT ![w] = "done"]
  /\ UNCHANGED <<schema, activities, participants, writer, call, txn, rows,
                 result, resp, before, restarts>>

\* The seeding loop inside one implicit transaction.  An INSERT INTO
\* activities the UNIQUE constraint rejects raises sqlite3.IntegrityError
\* out of the import: the process dies and its transaction is rolled back.
init_db_seed(w) ==
  /\ pc[w] = "init_db_seed"
  /\ writer = NoConn
  /\ LET db == SeedLoop([ok |-> TRUE, activities |-> activities,
                         participants |-> participants], seed_activities)
     IN IF db.ok
        THEN /\ writer' = w
             /\ txn' = [txn EXCEPT ![w] = [activities |-> db.activities,
                                           participants |-> db.participants]]
             /\ pc' = [pc EXCEPT ![w] = "init_db_commit"]
             /\ UNCHANGED <<call, before>>
        ELSE /\ pc' = [pc EXCEPT ![w] = "crashed"]
             /\ call' = [call EXCEPT ![w] = NoCall]
             /\ before' = EndCall(w)
             /\ UNCHANGED <<writer, txn>>
  /\ UNCHANGED <<schema, activities, participants, rows, result, resp, restarts>>

\* conn.commit(); conn.close()
init_db_commit(w) ==
  /\ pc[w] = "init_db_commit"
  /\ writer = w
  /\ activities' = txn[w].activities
  /\ participants' = txn[w].participants
  /\ writer' = NoConn
  /\ txn' = [txn EXCEPT ![w] = NoTxn]
  /\ pc' = [pc EXCEPT ![w] = "done"]
  /\ UNCHANGED <<schema, call, rows, result, resp, before, restarts>>

\* The server process is started again (the store file stays).
Restart(w) ==
  /\ pc[w] \in {"idle", "crashed"}
  /\ restarts < MaxRestarts
  /\ restarts' = restarts + 1
  /\ pc' = [pc EXCEPT ![w] = "import"]
  /\ UNCHANGED <<schema, activities, participants, writer, call, txn, rows,
                 result, resp, before>>

\* ------------------------------------------------------- get_activities

\* GET /activities: SELECT * FROM activities; rows = cur.fetchall()
get_activities(w) ==
  /\ pc[w] = "idle"
  /\ call' = [call EXCEPT ![w] = [NoCall EXCEPT !.op = "get_activities"]]
  /\ before' = BeginCall(w)
  /\ rows' = [rows EXCEPT ![w] = activities]
  /\ result' = [result EXCEPT ![w] = NoResult]
  /\ pc' = [pc EXCEPT ![w] = "get_activities_loop"]
  /\ UNCHANGED <<schema, activities, participants, writer, txn, resp, restarts>>

\* for r in rows: one SELECT email ... per activity; then return result.
get_activities_loop(w) ==
  /\ pc[w] = "get_activities_loop"
  /\ IF rows[w] = <<>>
     THEN /\ resp' = [resp EXCEPT ![w] = Response(200, "")]
          /\ pc' = [pc EXCEPT ![w] = "done"]
          /\ UNCHANGED <<rows, result>>
     ELSE LET r == Head(rows[w])
          IN /\ result' = [result EXCEPT ![w] =
                   (r.name :> activity_row_to_dict(r, SelectEmails(participants, r.name)))
                   @@ result[w]]
             /\ rows' = [rows EXCEPT ![w] = Tail(rows[w])]
             /\ UNCHANGED <<resp, pc>>
  /\ UNCHANGED <<schema, activities, participants, writer, call, txn, before,
                 restarts>>

\* -------------------------------------------------- signup_for_activity

\* Faulty variant: the row is inserted (and committed) before the activity
\* is looked up.
signup_insert_before_lookup(w, activity_name, email) ==
  /\ pc[w] = "idle"
  /\ writer = NoConn
  /\ call' = [call EXCEPT ![w] = [op |-> "signup", activity_name |-> activity_name,
                                  email |-> email]]
  /\ before' = BeginCall(w)
  /\ participants' = InsertOrIgnoreParticipant(participants, activity_name, email)
  /\ IF SelectActivity(activities, activity_name) = <<>>
     THEN /\ resp' = [resp EXCEPT ![w] = Response(404, "Activity not found")]
          /\ pc' = [pc EXCEPT ![w] = "done"]
     ELSE /\ pc' = [pc EXCEPT ![w] = "signup_check"]
          /\ UNCHANGED resp
  /\ UNCHANGED <<schema, activities, writer, txn, rows, result, restarts>>

\* POST /activities/{activity_name}/signup?email=...
\* SELECT * FROM activities WHERE name = ?; 404 when there is no row.
signup_for_activity(w, activity_name, email) ==
  /\ pc[w] = "idle"
  /\ call' = [call EXCEPT ![w] = [op |-> "signup", activity_name |-> activity_name,
                                  email |-> email]]
  /\ before' = BeginCall(w)
  /\ IF SelectActivity(activities, activity_name) = <<>>
     THEN /\ resp' = [resp EXCEPT ![w] = Response(404, "Activity not found")]
          /\ pc' = [pc EXCEPT ![w] = "done"]
     ELSE /\ pc' = [pc EXCEPT ![w] = "signup_check"]
          /\ UNCHANGED resp
  /\ UNCHANGED <<schema, activities, participants, writer, txn, rows, result,
                 restarts>>

\* SELECT 1 FROM participants WHERE activity_name = ? AND email = ?
signup_check(w) ==
  /\ pc[w] = "signup_check"
  /\ IF SelectParticipant(participants, call[w].activity_name, call[w].email) # <<>>
     THEN /\ resp' = [resp EXCEPT ![w] = Response(400, "Student is already signed up")]
          /\ pc' = [pc EXCEPT ![w] = "done"]
     ELSE /\ pc' = [pc EXCEPT ![w] = "signup_insert"]
          /\ UNCHANGED resp
  /\ UNCHANGED <<schema, activities, participants, writer, call, txn, rows,
                 result, before, restarts>>

\* Faulty variant: INSERT OR IGNORE, which never raises.
signup_insert_or_ignore(w) ==
  /\ pc[w] = "signup_insert"
  /\ writer = NoConn
  /\ writer' = w
  /\ txn' = [txn EXCEPT ![w] =
        [activities |-> activities,
         participants |-> InsertOrIgnoreParticipant(participants,
                             call[w].activity_name, call[w].email)]]
  /\ pc' = [pc EXCEPT ![w] = "signup_commit"]
  /\ UNCHANGED <<schema, activities, participants, call, rows, result, resp,
                 before, restarts>>

\* INSERT INTO participants ...: takes the write lock.  When the UNIQUE
\* constraint rejects the row, sqlite3.IntegrityError leaves the handler
\* (a 500 response) past conn.close(): the connection keeps its open
\* transaction, and the write lock, until it is finalised.
signup_insert(w) ==
  /\ pc[w] = "signup_insert"
  /\ writer = NoConn
  /\ IF ParticipantUniqueViolated(participants, call[w].activity_name, call[w].email)
     THEN /\ writer' = Leaked
          /\ resp' = [resp EXCEPT ![w] = Response(500, "Internal Server Error")]
          /\ pc' = [pc EXCEPT ![w] = "done"]
          /\ UNCHANGED txn
     ELSE /\ writer' = w
          /\ txn' = [txn EXCEPT ![w] =
                [activities |-> activities,
                 participants |-> InsertParticipant(participants,
                                     call[w].activity_name, call[w].email)]]
          /\ pc' = [pc EXCEPT ![w] = "signup_commit"]
          /\ UNCHANGED resp
  /\ UNCHANGED <<schema, activities, participants, call, rows, result, before,
                 restarts>>

\* conn.commit(); conn.close(); return {"message": ...}
signup_commit(w) ==
  /\ pc[w] = "signup_commit"
  /\ writer = w
  /\ participants' = txn[w].participants
  /\ writer' = NoConn
  /\ txn' = [txn EXCEPT ![w] = NoTxn]
  /\ resp' = [resp EXCEPT ![w] = Response(200, "Signed up {email} for {activity_name}")]
  /\ pc' = [pc EXCEPT ![w] = "done"]
  /\ UNCHANGED <<schema, activities, call, rows, result, before, restarts>>

\* The connection an exception left open is finalised by the garbage
\* collector: its transaction is rolled back and the write lock released.
FinalizeConnection ==
  /\ writer = Leaked
  /\ writer' = NoConn
  /\ UNCHANGED <<schema, activities, participants, pc, call, txn, rows, result,
                 resp, before, restarts>>

\* ---------------------------------------------- unregister_from_activity

\* DELETE /activities/{activity_name}/unregister?email=...
unregister_from_activity(w, activity_name, email) ==
  /\ pc[w] = "idle"
  /\ call' = [call EXCEPT ![w] = [op |-> "unregister", activity_name |-> activity_name,
                                  email |-> email]]
  /\ before' = BeginCall(w)
  /\ IF SelectActivity(activities, activity_name) = <<>>
     THEN /\ resp' = [resp EXCEPT ![w] = Response(404, "Activity not found")]
          /\ pc' = [pc EXCEPT ![w] = "done"]
     ELSE /\ pc' = [pc EXCEPT ![w] = "unregister_check"]
          /\ UNCHANGED resp
  /\ UNCHANGED <<schema, activities, participants, writer, txn, rows, result,
                 restarts>>

\* SELECT 1 FROM participants WHERE activity_name = ? AND email = ?
unregister_check(w) ==
  /\ pc[w] = "unregister_check"
  /\ IF SelectParticipant(participants, call[w].activity_name, call[w].email) = <<>>
     THEN /\ resp' = [resp EXCEPT ![w] =
                Response(400, "Student is not signed up for this activity")]
          /\ pc' = [pc EXCEPT ![w] = "done"]
     ELSE /\ pc' = [pc EXCEPT ![w] = "unregister_delete"]
          /\ UNCHANGED resp
  /\ UNCHANGED <<schema, activities, participants, writer, call, txn, rows,
                 result, before, restarts>>

\* DELETE FROM participants WHERE activity_name = ? AND email = ?
unregister_delete(w) ==
  /\ pc[w] = "unregister_delete"
  /\ writer = NoConn
  /\ writer' = w
  /\ txn' = [txn EXCEPT ![w] =
        [activities |-> activities,
         participants |-> DeleteParticipant(participants,
                             call[w].activity_name, call[w].email)]]
  /\ pc' = [pc EXCEPT ![w] = "unregister_commit"]
  /\ UNCHANGED <<schema, activities, participants, call, rows, result, resp,
                 before, restarts>>

\* conn.commit(); conn.close(); return {"message": ...}
unregister_commit(w) ==
  /\ pc[w] = "unregister_commit"
  /\ writer = w
  /\ participants' = txn[w].participants
  /\ writer' = NoConn
  /\ txn' = [txn EXCEPT ![w] = NoTxn]
  /\ resp' = [resp EXCEPT ![w] = Response(200, "Unregistered {email} from {activity_name}")]
  /\ pc' = [pc EXCEPT ![w] = "done"]
  /\ UNCHANGED <<schema, activities, call, rows, result, before, restarts>>

\* init_db() has returned or the response has been sent: the process takes
\* the next request.
Return(w) ==
  /\ pc[w] = "done"
  /\ pc' = [pc EXCEPT ![w] = "idle"]
  /\ call' = [call EXCEPT ![w] = NoCall]
  /\ resp' = [resp EXCEPT ![w] = NoResp]
  /\ result' = [result EXCEPT ![w] = NoResult]
  /\ before' = EndCall(w)
  /\ UNCHANGED <<schema, activities, participants, writer, txn, rows, restarts>>

\* ------------------------------------------------------- specifications

Step(w) ==
  \/ init_db_create(w)
  \/ init_db_count(w)
  \/ init_db_seed(w)
  \/ init_db_commit(w)
  \/ Restart(w)
  \/ get_activities(w)
  \/ get_activities_loop(w)
  \/ \E a \in ActivityInputs, e \in EmailInputs : signup_for_activity(w, a, e)
  \/ signup_check(w)
  \/ signup_insert(w)
  \/ signup_commit(w)
  \/ \E a \in ActivityInputs, e \in EmailInputs : unregister_from_activity(w, a, e)
  \/ unregister_check(w)
  \/ unregister_delete(w)
  \/ unregister_commit(w)
  \/ Return(w)

\* Requests handled concurrently by the processes.
Next == (\E w \in Procs : Step(w)) \/ FinalizeConnection

Spec == Init /\ [][Next]_vars

\* No request or import is in progress in any process but w.
Resting(w) == \A v \in Procs \ {w} : pc[v] \in {"import", "idle", "crashed"}

\* Sequential histories: one call at a time.
SeqNext == \E w \in Procs : Resting(w) /\ Step(w)

SeqSpec == Init /\ [][SeqNext]_vars

\* --------------------------------------------------------------- claims

Names(acts) == {acts[i].name : i \in DOMAIN acts}
RowsOf(parts, a) == {i \in DOMAIN parts : parts[i].activity_name = a}
EmailsOf(parts, a) == {parts[i].email : i \in RowsOf(parts, a)}
Enrolled(parts, a, e) ==
  \E i \in DOMAIN parts : parts[i].activity_name = a /\ parts[i].email = e
PairRows(parts, a, e) ==
  {i \in DOMAIN parts : parts[i].activity_name = a /\ parts[i].email = e}
Listed(entry) == {entry.participants[i] : i \in DOMAIN entry.participants}
InsertionOrder(parts, a) ==
  LET sel == SelectSeq(parts, LAMBDA r : r.activity_name = a)
  IN [i \in 1..Len(sel) |-> sel[i].email]
Finished(w, op) == pc[w] = "done" /\ call[w].op = op
Mutation(w) == Finished(w, "signup") \/ Finished(w, "unregister")

\* C1: in every reachable state the participants relation holds at most one
\* row for each (activity_name, email) pair.
C1_UniquePairs ==
  \A i, j \in DOMAIN participants :
    i # j => participants[i] # participants[j]

\* A concurrent second insert of a pair has been attempted and refused.
C1_Witness ==
  \E w \in Procs :
    /\ Finished(w, "signup")
    /\ resp[w].status = 500
    /\ Enrolled(participants, call[w].activity_name, call[w].email)

\* C2: no other request's committed write to participants takes effect
\* between a request's enrollment check and its own insert or delete.
C2_AtomicRequest ==
  [][\A w \in Procs :
       (pc[w] \in {"signup_insert", "unregister_delete"} /\ pc'[w] = pc[w])
         => participants' = participants]_vars

\* Two signups of the same pair, both begun while the pair was not enrolled
\* in an existing activity and overlapping in time, have both finished.
ConcurrentSignups(w, v) ==
  /\ w # v
  /\ w \in before[v].overlapped
  /\ Finished(w, "signup") /\ Finished(v, "signup")
  /\ call[w].activity_name = call[v].activity_name
  /\ call[w].email = call[v].email
  /\ call[w].activity_name \in Names(activities)
  /\ ~Enrolled(before[w].participants, call[w].activity_name, call[w].email)
  /\ ~Enrolled(before[v].participants, call[v].activity_name, call[v].email)

\* C3: of two concurrent signups of one pair that was not enrolled, exactly
\* one reports success; the other gets an error response and adds no row.
C3_OneSignupWins ==
  \A w, v \in Procs :
    ConcurrentSignups(w, v) =>
      /\ (resp[w].status = 200) # (resp[v].status = 200)
      /\ resp[w].status \in {200, 400, 500}
      /\ resp[v].status \in {200, 400, 500}
      /\ Cardinality(PairRows(participants, call[w].activity_name, call[w].email)) = 1

\* Both signups passed the duplicate check and the second insert was refused.
C3_Witness ==
  \E w, v \in Procs : ConcurrentSignups(w, v) /\ resp[v].status = 500

\* C4: in a sequential history, on an existing activity, signup succeeds
\* exactly when the pair was not enrolled and is refused with 400 "already
\* signed up" when it was; unregister succeeds exactly when the pair was
\* enrolled and is refused with 400 "not signed up" when it was not; a
\* success leaves the pair enrolled (signup) or not enrolled (unregister).
C4_TwoStateMachine ==
  \A w \in Procs :
    (Mutation(w) /\ call[w].activity_name \in Names(activities)) =>
      LET a == call[w].activity_name
          e == call[w].email
          was == Enrolled(before[w].participants, a, e)
          now == Enrolled(participants, a, e)
      IN IF call[w].op = "signup"
         THEN /\ (resp[w].status = 200) <=> ~was
              /\ was => resp[w] = Response(400, "Student is already signed up")
              /\ now
         ELSE /\ (resp[w].status = 200) <=> was
              /\ ~was => resp[w] =
                   Response(400, "Student is not signed up for this activity")
              /\ ~now

\* A second signup of a pair that an earlier signup enrolled is refused.
C4_Witness ==
  \E w \in Procs :
    /\ Finished(w, "signup")
    /\ call[w].email = "new@mergington.edu"
    /\ resp[w].status = 400

\* C5: a signup or unregister that is refused with 404 or 400 leaves both
\* relations exactly as they were before the call (sequential histories).
C5_RejectionChangesNothing ==
  \A w \in Procs :
    (Mutation(w) /\ resp[w].status \in {400, 404}) =>
      /\ activities = before[w].activities
      /\ participants = before[w].participants

\* An unregister of a pair that is not enrolled has been refused.
C5_Witness ==
  \E w \in Procs :
    /\ Finished(w, "unregister")
    /\ resp[w].status = 400
    /\ participants # <<>>

\* C6: signup and unregister of an activity name that is not in the
\* activities relation are refused with 404 "Activity not found", whatever
\* the email and before any enrolled / not-enrolled answer.
C6_UnknownActivityNotFound ==
  \A w \in Procs :
    (Mutation(w) /\ call[w].activity_name \notin Names(activities)) =>
      resp[w] = Response(404, "Activity not found")

\* An unregister of an unknown activity has been answered.
C6_Witness ==
  \E w \in Procs :
    /\ Finished(w, "unregister")
    /\ call[w].activity_name = "Unknown Club"
    /\ resp[w].status = 404

\* C7: no step of init_db taken while the activities relation is non-empty
\* changes either relation.
C7_InitIdempotent ==
  [][\A w \in Procs :
       (call[w].op = "init_db" /\ pc'[w] # pc[w] /\ activities # <<>>)
         => (activities' = activities /\ participants' = participants)]_vars

\* init_db has run to its end on a store whose seeded enrollments had been
\* changed by a signup and an unregister.
C7_Witness ==
  \E w \in Procs :
    /\ Finished(w, "init_db")
    /\ before[w].activities # <<>>
    /\ Enrolled(before[w].participants, "Chess Club", "new@mergington.edu")
    /\ ~Enrolled(before[w].participants, "Chess Club", "michael@mergington.edu")

\* C8: every entry get_activities builds lists exactly the emails that have
\* a participants row for that activity when the entry is built, as many as
\* there are such rows, and the finished mapping has one entry for every
\* row of the activities relation.
C8_ListMatchesRows ==
  [][\A w \in Procs :
       /\ (pc[w] = "get_activities_loop" /\ rows[w] # <<>>
             /\ rows'[w] = Tail(rows[w])) =>
            LET a == Head(rows[w]).name
            IN /\ a \in DOMAIN result'[w]
               /\ Listed(result'[w][a]) = EmailsOf(participants, a)
               /\ Len(result'[w][a].participants) =
                    Cardinality(RowsOf(participants, a))
       /\ (pc[w] = "get_activities_loop" /\ pc'[w] = "done") =>
            /\ DOMAIN result'[w] = Names(activities)
            /\ Cardinality(DOMAIN result'[w]) = Len(activities)]_vars

\* A listing made after a signup and an unregister shows the one and not
\* the other.
C8_Witness ==
  \E w \in Procs :
    /\ Finished(w, "get_activities")
    /\ "new@mergington.edu" \in Listed(result[w]["Chess Club"])
    /\ "michael@mergington.edu" \notin Listed(result[w]["Chess Club"])
    /\ "daniel@mergington.edu" \in Listed(result[w]["Chess Club"])

\* C9: the participants list of every entry of a listing is in enrollment
\* insertion order (sequential histories).
C9_InsertionOrder ==
  \A w \in Procs :
    Finished(w, "get_activities") =>
      \A a \in DOMAIN result[w] :
        result[w][a].participants = InsertionOrder(participants, a)

\* C10: every participants row names an existing activity, and once the
\* activities relation is non-empty no step changes it.
C10_ActivitiesFixed ==
  /\ [](\A i \in DOMAIN participants :
          participants[i].activity_name \in Names(activities))
  /\ [][activities # <<>> => activities' = activities]_vars

\* A signup has added a row after the seeding.
C10_Witness ==
  /\ Enrolled(participants, "Chess Club", "new@mergington.edu")
  /\ Len(activities) = Len(seed_activities)

====
